---- MODULE Spec2Model ----
(***************************************************************************)
(* get_recommendations of recommender.py as a state machine.               *)
(*                                                                         *)
(* Python values are encoded as follows.                                   *)
(*  - A JSON field that may be missing, null or present is a record        *)
(*    [kind, val] with kind in {"absent", "null", "value"}.                *)
(*  - A dict is a sequence of entries with unique keys, in insertion       *)
(*    order (Python dicts iterate in insertion order; assigning to an      *)
(*    existing key keeps its position).                                    *)
(*  - Scores are kept as integers scaled by ScoreScale, so that            *)
(*    rating + popularity/10000 + averageScore/100 and rating * 1.5 are    *)
(*    exact; floating-point rounding is not modelled.                      *)
(***************************************************************************)
EXTENDS Integers, Sequences, FiniteSets, TLC

VARIABLES
  pc,                   \* "start", "fetch", "done" (returned) or "raised"
  user_ratings,         \* argument: the rating history, or None
  max_per_genre,        \* argument
  favorites,            \* line 14/17
  seeds,                \* favorites[:8], the sequence the loop of line 25 visits
  seen_ids,             \* line 21
  all_recommendations,  \* line 20: the merged candidate map
  result,               \* the returned dict
  seed_maps,            \* history: the map each call of line 26 returned
  fetch_log,            \* history: the seed of each call of line 26, and whether it failed
  trending_log          \* history: the response to each trending query

vars == <<pc, user_ratings, max_per_genre, favorites, seeds, seen_ids,
          all_recommendations, result, seed_maps, fetch_log, trending_log>>

(***************************************************************************)
(* Program constants                                                       *)
(***************************************************************************)
FavoriteThreshold == 7
FallbackFavorites == 5
SeedLimit == 8
TopPicksLimit == 20
DefaultGenreLimit == 15
DefaultMaxPerGenre == 15
ScoreScale == 10000
AverageScoreScale == 100
RelationBoost == 15000

TopPicksKey == "Top Picks For You"
OtherGenre == "Other"
TrendingKey == "Trending Now"
RelationTypes == {"SEQUEL", "PREQUEL", "SIDE_STORY", "ALTERNATIVE", "SPIN_OFF"}
FallbackIds == <<5114, 16498, 11061, 1535, 9253, 30276, 38000, 40748, 28851, 32281>>

(***************************************************************************)
(* Bounds of the model                                                     *)
(***************************************************************************)
MaxHist == 2
MaxFavHist == 10
WideSize == 21
WideTrendingSize == 16

(***************************************************************************)
(* Optional JSON fields                                                    *)
(***************************************************************************)
NumAbsent == [kind |-> "absent", val |-> 0]
NumNull == [kind |-> "null", val |-> 0]
Num(n) == [kind |-> "value", val |-> n]
ListAbsent == [kind |-> "absent", val |-> <<>>]
ListNull == [kind |-> "null", val |-> <<>>]
List(s) == [kind |-> "value", val |-> s]

\* d.get(key, default) on a field: the default only when the key is missing.
Get(field, default) == IF field.kind = "absent" THEN default ELSE field

\* Python truthiness of a number field read with .get(key): None and 0 are falsy.
TruthyNum(field) == field.kind = "value" /\ field.val # 0

(***************************************************************************)
(* Python sequence helpers                                                 *)
(***************************************************************************)
Min(a, b) == IF a < b THEN a ELSE b
Max(a, b) == IF a > b THEN a ELSE b

\* Variant: the slice forgotten.
SliceNoLimit(s, n) == s

\* s[:n], including Python's meaning of a negative n (all but the last -n).
Slice(s, n) ==
  IF n >= 0 THEN SubSeq(s, 1, Min(n, Len(s)))
            ELSE SubSeq(s, 1, Max(Len(s) + n, 0))

Range(s) == {s[i] : i \in 1..Len(s)}

\* sorted(..., reverse=True) on the keys: the indexes of keys in descending
\* key order, equal keys in their original order (the sort is stable).
RECURSIVE InsertDesc(_, _, _)
InsertDesc(sorted, i, keys) ==
  IF sorted = <<>> THEN <<i>>
  ELSE IF keys[Head(sorted)] >= keys[i]
       THEN <<Head(sorted)>> \o InsertDesc(Tail(sorted), i, keys)
       ELSE <<i>> \o sorted

RECURSIVE SortPrefix(_, _)
SortPrefix(keys, n) ==
  IF n = 0 THEN <<>> ELSE InsertDesc(SortPrefix(keys, n - 1), n, keys)

SortedDescIdx(keys) == SortPrefix(keys, Len(keys))

\* dict lookups and assignment on a sequence of entries keyed by .id
HasKey(map, id) == \E i \in 1..Len(map) : map[i].id = id
IndexOf(map, id) == CHOOSE i \in 1..Len(map) : map[i].id = id
Put(map, e) ==
  IF HasKey(map, e.id) THEN [map EXCEPT ![IndexOf(map, e.id)] = e]
  ELSE Append(map, e)

(***************************************************************************)
(* fetch_similar_anime_with_genres                                         *)
(*                                                                         *)
(* A response of the remote service is                                     *)
(*   [kind, recommendations, relations]                                    *)
(* kind "raise": requests.post or response.json raises (transport error,   *)
(* timeout, body that is no JSON); "no_data": JSON without a 'data' key;   *)
(* "data_null": 'data' is null; "media_null": data.Media is null;          *)
(* "media": data.Media is an object whose two connections are optional     *)
(* fields holding the list of nodes.                                       *)
(***************************************************************************)
RecScore(user_rating, popularity, averageScore) ==
  user_rating * ScoreScale + popularity + averageScore * AverageScoreScale

RelScore(user_rating) == user_rating * RelationBoost

NoExc(map) == [exc |-> FALSE, map |-> map]
Exc == [exc |-> TRUE, map |-> <<>>]

\* One iteration of the loop over media['recommendations']['nodes'].
AddRecommendation(similar_anime, rec, user_rating) ==
  IF rec.mr # "value" THEN NoExc(similar_anime)
  ELSE IF ~TruthyNum(rec.id) THEN NoExc(similar_anime)
  ELSE LET popularity == Get(rec.popularity, Num(0))
           averageScore == Get(rec.averageScore, Num(0))
       IN IF popularity.kind = "null" \/ averageScore.kind = "null"
          THEN Exc   \* None / 10000 raises TypeError inside the try block
          ELSE NoExc(Put(similar_anime,
                 [id |-> rec.id.val,
                  score |-> RecScore(user_rating, popularity.val, averageScore.val),
                  genres |-> Get(rec.genres, List(<<>>))]))

\* One iteration of the loop over media['relations']['nodes'].
AddRelation(similar_anime, rel, user_rating) ==
  IF TruthyNum(rel.id) /\ rel.type \in RelationTypes
  THEN Put(similar_anime,
           [id |-> rel.id.val,
            score |-> RelScore(user_rating),
            genres |-> Get(rel.genres, List(<<>>))])
  ELSE similar_anime

RECURSIVE ProcessRecommendations(_, _, _)
ProcessRecommendations(nodes, user_rating, acc) ==
  IF nodes = <<>> \/ acc.exc THEN acc
  ELSE ProcessRecommendations(Tail(nodes), user_rating,
         AddRecommendation(acc.map, Head(nodes), user_rating))

RECURSIVE ProcessRelations(_, _, _)
ProcessRelations(nodes, user_rating, similar_anime) ==
  IF nodes = <<>> THEN similar_anime
  ELSE ProcessRelations(Tail(nodes), user_rating,
         AddRelation(similar_anime, Head(nodes), user_rating))

\* The connection is read only when media.get(...) is truthy.
Nodes(conn) == IF conn.kind = "value" THEN conn.val ELSE <<>>

\* The result: the candidate map returned, and whether the fetch failed (an
\* exception caught by the except clause, or a body without a Media object).
fetch_similar_anime_with_genres(resp, user_rating) ==
  IF resp.kind # "media" THEN [failed |-> TRUE, similar |-> <<>>]
  ELSE LET recs == ProcessRecommendations(
                     Nodes(resp.recommendations), user_rating, NoExc(<<>>))
       IN IF recs.exc THEN [failed |-> TRUE, similar |-> <<>>]
          ELSE [failed |-> FALSE,
                similar |-> ProcessRelations(Nodes(resp.relations), user_rating, recs.map)]

(***************************************************************************)
(* get_recommendations: favorites (lines 13-17, 25)                        *)
(***************************************************************************)
Ratings(rs) == [i \in 1..Len(rs) |-> rs[i].rating]

\* [r for r in user_ratings if r["rating"] >= 7]
RECURSIVE RatedAtLeast(_, _)
RatedAtLeast(rs, threshold) ==
  IF rs = <<>> THEN <<>>
  ELSE IF Head(rs).rating >= threshold
       THEN <<Head(rs)>> \o RatedAtLeast(Tail(rs), threshold)
       ELSE RatedAtLeast(Tail(rs), threshold)

\* sorted(user_ratings, key=rating, reverse=True)
SortedByRating(rs) ==
  LET order == SortedDescIdx(Ratings(rs)) IN [i \in 1..Len(rs) |-> rs[order[i]]]

\* Variant: rating > 7 in place of rating >= 7.
SelectFavoritesStrict(rs) ==
  LET liked == RatedAtLeast(rs, FavoriteThreshold + 1)
  IN IF liked # <<>> THEN liked
     ELSE Slice(SortedByRating(rs), FallbackFavorites)

SelectFavorites(rs) ==
  LET liked == RatedAtLeast(rs, FavoriteThreshold)
  IN IF liked # <<>> THEN liked
     ELSE Slice(SortedByRating(rs), FallbackFavorites)

\* favorites[:8], the seeds the loop of line 25 visits
Seeds(favs) == Slice(favs, SeedLimit)

(***************************************************************************)
(* get_recommendations: the merge of one seed's candidates (lines 27-33)   *)
(***************************************************************************)
\* Variant: without the seen_ids test of line 28.
MergeEntryUnfiltered(all_recs, seen, e) ==
  IF ~HasKey(all_recs, e.id) THEN Append(all_recs, e)
  ELSE [all_recs EXCEPT ![IndexOf(all_recs, e.id)].score = @ + e.score]

\* Variant: a repeated id keeps its first score.
MergeEntryKeepFirst(all_recs, seen, e) ==
  IF e.id \in seen THEN all_recs
  ELSE IF ~HasKey(all_recs, e.id) THEN Append(all_recs, e)
  ELSE all_recs

\* Variant: a repeated id takes the last score (= in place of +=).
MergeEntryOverwrite(all_recs, seen, e) ==
  IF e.id \in seen THEN all_recs
  ELSE IF ~HasKey(all_recs, e.id) THEN Append(all_recs, e)
  ELSE [all_recs EXCEPT ![IndexOf(all_recs, e.id)].score = e.score]

MergeEntry(all_recs, seen, e) ==
  IF e.id \in seen THEN all_recs
  ELSE IF ~HasKey(all_recs, e.id) THEN Append(all_recs, e)
  ELSE [all_recs EXCEPT ![IndexOf(all_recs, e.id)].score = @ + e.score]

RECURSIVE MergeSimilar(_, _, _)
MergeSimilar(all_recs, seen, similar) ==
  IF similar = <<>> THEN all_recs
  ELSE MergeSimilar(MergeEntry(all_recs, seen, Head(similar)), seen, Tail(similar))

(***************************************************************************)
(* get_recommendations: genre buckets (lines 37-57)                        *)
(*                                                                         *)
(* genre_recommendations and final_recommendations are dicts: sequences    *)
(* of [key, items] in insertion order.                                     *)
(***************************************************************************)
HasGenre(buckets, g) == \E i \in 1..Len(buckets) : buckets[i].key = g
GenreIndex(buckets, g) == CHOOSE i \in 1..Len(buckets) : buckets[i].key = g

\* genre_recommendations[genre].append(item) on a defaultdict(list)
AppendTo(buckets, g, item) ==
  IF HasGenre(buckets, g)
  THEN [buckets EXCEPT ![GenreIndex(buckets, g)].items = Append(@, item)]
  ELSE Append(buckets, [key |-> g, items |-> <<item>>])

\* data.get('genres', ['Other']): every merged entry carries a 'genres' key
\* (fetch_similar_anime_with_genres always sets it), so the default is never
\* taken; a null genre list is returned as None.
EntryGenres(e) == e.genres.val

RECURSIVE AppendGenres(_, _, _)
AppendGenres(buckets, genres, item) ==
  IF genres = <<>> THEN buckets
  ELSE AppendGenres(AppendTo(buckets, Head(genres), item), Tail(genres), item)

RECURSIVE GroupByGenre(_, _)
GroupByGenre(all_recs, buckets) ==
  IF all_recs = <<>> THEN buckets
  ELSE GroupByGenre(Tail(all_recs),
         AppendGenres(buckets, EntryGenres(Head(all_recs)),
                      [id |-> Head(all_recs).id, score |-> Head(all_recs).score]))

Scores(items) == [i \in 1..Len(items) |-> items[i].score]
Ids(items) == [i \in 1..Len(items) |-> items[i].id]

\* sorted(anime_list, key=score, reverse=True)
SortedByScore(items) ==
  LET order == SortedDescIdx(Scores(items)) IN [i \in 1..Len(items) |-> items[order[i]]]

\* lines 48-53: sort each genre by score, limit, keep the non-empty ones
RECURSIVE LimitGenres(_, _)
LimitGenres(buckets, limit) ==
  IF buckets = <<>> THEN <<>>
  ELSE LET anime_ids == Ids(Slice(SortedByScore(Head(buckets).items), limit))
       IN (IF anime_ids # <<>> THEN <<[key |-> Head(buckets).key, ids |-> anime_ids]>>
           ELSE <<>>) \o LimitGenres(Tail(buckets), limit)

Lengths(final) == [i \in 1..Len(final) |-> Len(final[i].ids)]

\* lines 56-57: sorted(final_recommendations.items(), key=len, reverse=True)
\* Variant: the sort of line 56 forgotten.
SortedGenresUnsorted(final) == final

SortedGenres(final) ==
  LET order == SortedDescIdx(Lengths(final)) IN [i \in 1..Len(final) |-> final[order[i]]]

\* lines 62-63
TopPicks(all_recs) == Ids(Slice(SortedByScore(all_recs), TopPicksLimit))

\* lines 65-68: the returned dict, top picks first. (The source's key also
\* starts with a star emoji; TopPicksKey stands for the whole key.)
\* Variant: the top picks added behind the genres.
PersonalizedTopLast(all_recs, limit) ==
  SortedGenres(LimitGenres(GroupByGenre(all_recs, <<>>), limit))
    \o <<[key |-> TopPicksKey, ids |-> TopPicks(all_recs)]>>

Personalized(all_recs, limit) ==
  <<[key |-> TopPicksKey, ids |-> TopPicks(all_recs)]>>
    \o SortedGenres(LimitGenres(GroupByGenre(all_recs, <<>>), limit))

\* for genre in None raises TypeError at line 41
RaisesAtLine41(all_recs) == \E i \in 1..Len(all_recs) : all_recs[i].genres.kind = "null"

(***************************************************************************)
(* get_default_recommendations                                             *)
(*                                                                         *)
(* A trending response is [kind, media]: kind "raise", "no_data",          *)
(* "data_null", "page_null" as above, or "page" with the optional field    *)
(* media, a list of items [id, genres].                                    *)
(***************************************************************************)
Fallback == <<[key |-> TrendingKey, ids |-> FallbackIds]>>
\* Variant: an empty dict in place of the fallback bucket.
FallbackEmpty == <<>>

\* anime['id'] raises KeyError on a missing id; iterating a null genre list
\* raises TypeError; both end in the except clause.
ItemRaises(anime) == anime.id.kind = "absent" \/ anime.genres.kind = "null"

RECURSIVE GroupTrending(_, _)
GroupTrending(media, genre_map) ==
  IF media = <<>> THEN genre_map
  ELSE GroupTrending(Tail(media),
         AppendGenres(genre_map, Get(Head(media).genres, List(<<OtherGenre>>)).val,
                      Head(media).id.val))

\* lines 180-182: result[genre] = ids[:15]
LimitTrending(genre_map) ==
  [i \in 1..Len(genre_map) |->
     [key |-> genre_map[i].key, ids |-> Slice(genre_map[i].items, DefaultGenreLimit)]]

DefaultRecommendationsNoFallback(resp) ==
  IF resp.kind # "page" THEN FallbackEmpty
  ELSE IF resp.media.kind # "value" THEN FallbackEmpty
  ELSE IF \E i \in 1..Len(resp.media.val) : ItemRaises(resp.media.val[i]) THEN FallbackEmpty
  ELSE LimitTrending(GroupTrending(resp.media.val, <<>>))

get_default_recommendations(resp) ==
  IF resp.kind # "page" THEN Fallback
  ELSE IF resp.media.kind # "value" THEN Fallback
  ELSE IF \E i \in 1..Len(resp.media.val) : ItemRaises(resp.media.val[i]) THEN Fallback
  ELSE LimitTrending(GroupTrending(resp.media.val, <<>>))

(***************************************************************************)
(* Inputs: rating histories, max_per_genre, remote responses               *)
(***************************************************************************)
RatingValues == {5, 6, 9}
FavRatingValues == {5, 6, 7}
MaxPerGenreValues == {-1, 0, 1, DefaultMaxPerGenre}

\* Histories of n ratings; the i-th rated anime has id i.
History(n, ratings) == [i \in 1..n |-> [anime_id |-> i, rating |-> ratings[i]]]
HistoriesOf(n, values) == {History(n, f) : f \in [1..n -> values]}

\* A history longer than the seed limit: SeedLimit + 2 ratings of the anime
\* LongBase + 1, LongBase + 2, ..., the last at 5 and the others at 9.
LongBase == SeedLimit + 2
LongHistory ==
  [i \in 1..(SeedLimit + 2) |->
     [anime_id |-> LongBase + i, rating |-> IF i <= SeedLimit + 1 THEN 9 ELSE 5]]

Histories ==
  {ListNull} \cup {List(LongHistory)}
    \cup {List(h) : h \in UNION {HistoriesOf(n, RatingValues) : n \in 0..MaxHist}}

Action == "Action"
Comedy == "Comedy"
Drama == "Drama"

RecNode(id, popularity, averageScore, genres) ==
  [mr |-> "value", id |-> id, popularity |-> popularity,
   averageScore |-> averageScore, genres |-> genres]

RecA == RecNode(Num(2), Num(20000), Num(80), List(<<Action>>))
RecB == RecNode(Num(3), NumAbsent, NumAbsent, List(<<Comedy, Action>>))
RecC == RecNode(Num(4), Num(20000), Num(80), ListAbsent)
RecD == RecNode(Num(4), Num(20000), Num(80), List(<<Drama, Action>>))
RecE == RecNode(Num(3), NumAbsent, NumAbsent, List(<<>>))
RecF == RecNode(Num(3), NumAbsent, NumAbsent, ListNull)
RecNoId == RecNode(NumAbsent, Num(20000), Num(80), List(<<Action>>))
RecNoMedia == [RecA EXCEPT !.mr = "null"]
RecNoScore == RecNode(Num(3), Num(20000), NumNull, List(<<Action>>))

RelNode(id, type, genres) == [id |-> id, type |-> type, genres |-> genres]
RelSequel == RelNode(Num(3), "SEQUEL", List(<<Action>>))
RelOther == RelNode(Num(4), "ADAPTATION", List(<<Action>>))
RelNoId == RelNode(NumAbsent, "PREQUEL", List(<<Action>>))

Media(recs, rels) == [kind |-> "media", recommendations |-> recs, relations |-> rels]
Failure(kind) == [kind |-> kind, recommendations |-> ListAbsent, relations |-> ListAbsent]
Failures == {Failure(k) : k \in {"raise", "no_data", "data_null", "media_null"}}

RecLists ==
  {ListAbsent, ListNull, List(<<>>), List(<<RecB, RecC>>), List(<<RecB, RecA>>)}
    \cup {List(<<n>>) :
            n \in {RecA, RecB, RecC, RecD, RecE, RecF, RecNoId, RecNoMedia, RecNoScore}}
RelLists ==
  {ListAbsent, List(<<>>)} \cup {List(<<n>>) : n \in {RelSequel, RelOther, RelNoId}}

RichResponses == Failures \cup {Media(recs, rels) : recs \in RecLists, rels \in RelLists}

\* The responses to a seed of LongHistory: a failure, or recommendations that
\* name two rated anime that are no seeds (the ninth favorite and the one
\* rated below the threshold) and one that is not rated.
RecRated(i) == RecNode(Num(LongBase + i), NumAbsent, NumAbsent, List(<<Action>>))
FillerResponse ==
  Media(List(<<RecRated(SeedLimit + 1), RecRated(SeedLimit + 2), RecB>>), ListAbsent)

\* A response with WideSize recommendations, scores ascending.
WideBase == 10 * LongBase
WideResponse ==
  Media(List([i \in 1..WideSize |->
                RecNode(Num(WideBase + i), Num(i * ScoreScale), NumAbsent, List(<<Action>>))]),
        ListAbsent)

ResponsesFor(anime_id) ==
  IF anime_id <= LongBase THEN RichResponses
  ELSE {Failure("raise"), FillerResponse}
         \cup (IF anime_id = LongBase + 1 THEN {WideResponse} ELSE {})

TrendItem(id, genres) == [id |-> id, genres |-> genres]
TrendItems ==
  {TrendItem(Num(5), List(<<Action>>)), TrendItem(Num(6), List(<<Comedy, Action>>)),
   TrendItem(Num(7), ListAbsent), TrendItem(Num(8), List(<<>>)),
   TrendItem(Num(8), ListNull), TrendItem(NumAbsent, List(<<Action>>))}
Page(media) == [kind |-> "page", media |-> media]
WideTrending ==
  Page(List([i \in 1..WideTrendingSize |-> TrendItem(Num(WideBase + i), List(<<Action>>))]))
TrendingResponses ==
  {[kind |-> k, media |-> ListAbsent] : k \in {"raise", "no_data", "data_null", "page_null"}}
    \cup {Page(ListAbsent), Page(ListNull), Page(List(<<>>)), WideTrending}
    \cup {Page(List(<<a>>)) : a \in TrendItems}
    \cup {Page(List(<<a, b>>)) : a, b \in TrendItems}

(***************************************************************************)
(* The state machine                                                       *)
(***************************************************************************)
NoRatings == user_ratings.kind = "null" \/ user_ratings.val = <<>>

Start ==
  /\ pc = "start"
  /\ favorites = <<>>
  /\ seeds = <<>>
  /\ trending_log = <<>>
  /\ seen_ids = {}
  /\ all_recommendations = <<>>
  /\ seed_maps = <<>>
  /\ fetch_log = <<>>
  /\ result = <<>>

Init ==
  /\ user_ratings \in Histories
  /\ max_per_genre \in MaxPerGenreValues
  /\ Start

\* Non-empty histories of up to MaxFavHist ratings, max_per_genre at its default.
InitFav ==
  /\ \E n \in 1..MaxFavHist : \E f \in [1..n -> FavRatingValues] :
       user_ratings = List(History(n, f))
  /\ max_per_genre = DefaultMaxPerGenre
  /\ Start

\* lines 10-11 and 148-191: not user_ratings, the cold start
ColdStart ==
  /\ pc = "start"
  /\ NoRatings
  /\ \E resp \in TrendingResponses :
       /\ result' = get_default_recommendations(resp)
       /\ trending_log' = Append(trending_log, resp)
  /\ pc' = "done"
  /\ UNCHANGED <<user_ratings, max_per_genre, favorites, seeds, seen_ids,
                 all_recommendations, seed_maps, fetch_log>>

\* lines 13-23
SelectSeeds ==
  /\ pc = "start"
  /\ ~NoRatings
  /\ favorites' = SelectFavorites(user_ratings.val)
  /\ seeds' = Seeds(favorites')
  /\ seen_ids' = {user_ratings.val[i].anime_id : i \in 1..Len(user_ratings.val)}
  /\ pc' = "fetch"
  /\ UNCHANGED <<user_ratings, max_per_genre, all_recommendations, seed_maps,
                 fetch_log, trending_log, result>>

\* Variant: a failed fetch propagates (no except clause).
FetchSeedPropagating ==
  /\ pc = "fetch"
  /\ Len(fetch_log) < Len(seeds)
  /\ LET fav == seeds[Len(fetch_log) + 1]
     IN \E resp \in ResponsesFor(fav.anime_id) :
          LET got == fetch_similar_anime_with_genres(resp, fav.rating)
          IN /\ all_recommendations' =
                  MergeSimilar(all_recommendations, seen_ids, got.similar)
             /\ seed_maps' = Append(seed_maps, got.similar)
             /\ fetch_log' = Append(fetch_log,
                                    [anime_id |-> fav.anime_id, failed |-> got.failed])
             /\ pc' = IF got.failed THEN "raised" ELSE pc
  /\ UNCHANGED <<user_ratings, max_per_genre, favorites, seeds, seen_ids, result,
                 trending_log>>

\* lines 25-33: one iteration of the loop over favorites[:8], with the call
\* of fetch_similar_anime_with_genres (lines 71-145)
FetchSeed ==
  /\ pc = "fetch"
  /\ Len(fetch_log) < Len(seeds)
  /\ LET fav == seeds[Len(fetch_log) + 1]
     IN \E resp \in ResponsesFor(fav.anime_id) :
          LET got == fetch_similar_anime_with_genres(resp, fav.rating)
          IN /\ all_recommendations' =
                  MergeSimilar(all_recommendations, seen_ids, got.similar)
             /\ seed_maps' = Append(seed_maps, got.similar)
             /\ fetch_log' = Append(fetch_log,
                                    [anime_id |-> fav.anime_id, failed |-> got.failed])
  /\ UNCHANGED <<pc, user_ratings, max_per_genre, favorites, seeds, seen_ids, result,
                 trending_log>>

\* lines 37-68, when no merged candidate has a null genre list
Organize ==
  /\ pc = "fetch"
  /\ Len(fetch_log) = Len(seeds)
  /\ ~RaisesAtLine41(all_recommendations)
  /\ result' = Personalized(all_recommendations, max_per_genre)
  /\ pc' = "done"
  /\ UNCHANGED <<user_ratings, max_per_genre, favorites, seeds, seen_ids,
                 all_recommendations, seed_maps, fetch_log, trending_log>>

\* line 41 on a candidate whose genre list is null: TypeError, uncaught
RaiseTypeError ==
  /\ pc = "fetch"
  /\ Len(fetch_log) = Len(seeds)
  /\ RaisesAtLine41(all_recommendations)
  /\ pc' = "raised"
  /\ UNCHANGED <<user_ratings, max_per_genre, favorites, seeds, seen_ids,
                 all_recommendations, seed_maps, fetch_log, trending_log, result>>

Next == ColdStart \/ SelectSeeds \/ FetchSeed \/ Organize \/ RaiseTypeError

Spec == Init /\ [][Next]_vars

\* Favorite selection alone, on histories of up to MaxFavHist ratings.
SpecFav == InitFav /\ [][SelectSeeds]_vars

(***************************************************************************)
(* Properties                                                              *)
(***************************************************************************)
Returned == pc = "done"
PersonalizedCall == ~NoRatings /\ pc \in {"fetch", "done", "raised"}

RatedIds ==
  IF NoRatings THEN {}
  ELSE {user_ratings.val[i].anime_id : i \in 1..Len(user_ratings.val)}
RatedBelow(limit) ==
  {user_ratings.val[i].anime_id :
     i \in {k \in 1..Len(user_ratings.val) : user_ratings.val[k].rating < limit}}
ReturnedIds == UNION {Range(result[i].ids) : i \in 1..Len(result)}
MapIds(map) == {map[j].id : j \in 1..Len(map)}
OfferedIds == UNION {MapIds(seed_maps[i]) : i \in 1..Len(seed_maps)}
EntryOf(map, id) == map[CHOOSE j \in 1..Len(map) : map[j].id = id]

\* C1: when get_recommendations returns for a non-empty history, no id in
\* the top picks or in any genre bucket is an anime_id of the history,
\* whether or not that rating was used as a seed.
C1_RatedIdsExcluded ==
  (Returned /\ ~NoRatings) => ReturnedIds \cap RatedIds = {}

\* The remote offered the ninth favorite and an anime rated below the
\* threshold, and the call returned other ids.
C1_Witness ==
  /\ Returned
  /\ Len(favorites) > 8
  /\ favorites[9].anime_id \in OfferedIds
  /\ RatedBelow(7) \cap OfferedIds # {}
  /\ ReturnedIds # {}

\* C2, as stated: on every return the top-picks list has at most 20 ids and
\* every other bucket at most max_per_genre, the cold start included. Stated
\* for max_per_genre >= 1 only, where it is most plausible.
C2_Original ==
  (Returned /\ max_per_genre >= 1) =>
    \A i \in 1..Len(result) :
      IF result[i].key = TopPicksKey THEN Len(result[i].ids) <= 20
      ELSE Len(result[i].ids) <= max_per_genre

\* C2, amended: for a non-empty history the top picks have at most 20 ids
\* and, when max_per_genre >= 0, every genre bucket has at most
\* max_per_genre; for an empty or absent history every bucket has at most
\* 15 ids, whatever max_per_genre is.
C2_BucketsCapped ==
  Returned =>
    IF NoRatings THEN \A i \in 1..Len(result) : Len(result[i].ids) <= 15
    ELSE /\ Len(result[1].ids) <= 20
         /\ max_per_genre >= 0 =>
              \A i \in 2..Len(result) : Len(result[i].ids) <= max_per_genre

\* More than 20 candidates were merged, and both caps cut.
C2_Witness ==
  /\ Returned /\ ~NoRatings
  /\ Len(all_recommendations) > 20
  /\ Len(result[1].ids) = 20
  /\ max_per_genre = 15
  /\ \E i \in 2..Len(result) : Len(result[i].ids) = 15

SeedList == SubSeq(favorites, 1, Min(Len(favorites), 8))
C4_FetchFailureAbsorbed ==
  PersonalizedCall =>
    /\ Len(fetch_log) <= Len(SeedList)
    /\ Len(seed_maps) = Len(fetch_log)
    /\ \A i \in 1..Len(fetch_log) :
         /\ fetch_log[i].anime_id = SeedList[i].anime_id
         /\ fetch_log[i].failed => seed_maps[i] = <<>>
    /\ pc # "fetch" => Len(fetch_log) = Len(SeedList)
    /\ pc = "raised" =>
         \E i \in 1..Len(fetch_log) :
           /\ ~fetch_log[i].failed
           /\ \E j \in 1..Len(seed_maps[i]) : seed_maps[i][j].genres.kind = "null"

\* A fetch failed, the next seed was fetched and gave candidates, and the
\* call returned them.
C4_Witness ==
  /\ Returned
  /\ \E i \in 1..(Len(fetch_log) - 1) :
       /\ fetch_log[i].failed
       /\ ~fetch_log[i + 1].failed
       /\ MapIds(seed_maps[i + 1]) \cap ReturnedIds # {}

\* C5: the merged map holds exactly the offered ids that are not rated;
\* the score of each is the sum of its scores in the seed maps that hold
\* it, and its genre list is that of the first such seed map.
RECURSIVE ScoreSum(_, _)
ScoreSum(maps, id) ==
  IF maps = <<>> THEN 0
  ELSE (IF id \in MapIds(Head(maps)) THEN EntryOf(Head(maps), id).score ELSE 0)
         + ScoreSum(Tail(maps), id)
FirstSeedWith(id) ==
  CHOOSE i \in 1..Len(seed_maps) :
    /\ id \in MapIds(seed_maps[i])
    /\ \A k \in 1..(i - 1) : id \notin MapIds(seed_maps[k])
C5_MergeAdditive ==
  PersonalizedCall =>
    /\ MapIds(all_recommendations) = OfferedIds \ RatedIds
    /\ Cardinality(MapIds(all_recommendations)) = Len(all_recommendations)
    /\ \A i \in 1..Len(all_recommendations) :
         LET e == all_recommendations[i]
         IN /\ e.score = ScoreSum(seed_maps, e.id)
            /\ e.genres = EntryOf(seed_maps[FirstSeedWith(e.id)], e.id).genres

\* Two seeds returned the same unrated id with different scores and
\* different genre lists.
C5_Witness ==
  /\ Returned
  /\ \E i, k \in 1..Len(seed_maps) : \E id \in ReturnedIds :
       /\ i < k
       /\ id \in MapIds(seed_maps[i]) \cap MapIds(seed_maps[k])
       /\ EntryOf(seed_maps[i], id).score # EntryOf(seed_maps[k], id).score
       /\ EntryOf(seed_maps[i], id).genres # EntryOf(seed_maps[k], id).genres

\* C6: favorites are the ratings >= 7 in input order or, when there are
\* none, the 5 highest ratings in descending order, equal ratings in input
\* order; the seeds are the first 8 favorites.
Liked(r) == r.rating >= 7
RankOf(h, i) ==
  1 + Cardinality({j \in 1..Len(h) :
        h[j].rating > h[i].rating \/ (h[j].rating = h[i].rating /\ j < i)})
ByRank(h) == [k \in 1..Len(h) |-> h[CHOOSE i \in 1..Len(h) : RankOf(h, i) = k]]
ExpectedFavorites(h) ==
  IF SelectSeq(h, Liked) # <<>> THEN SelectSeq(h, Liked)
  ELSE SubSeq(ByRank(h), 1, Min(5, Len(h)))
C6_FavoriteSelection ==
  pc = "fetch" =>
    /\ favorites = ExpectedFavorites(user_ratings.val)
    /\ seeds = SubSeq(favorites, 1, Min(8, Len(favorites)))
    /\ Len(seeds) <= 8

\* More than 8 ratings reach the threshold, one does not.
C6_Witness ==
  /\ pc = "fetch"
  /\ Len(favorites) > 8
  /\ Len(favorites) < Len(user_ratings.val)
  /\ Len(seeds) = 8

\* C7: an empty or absent history goes to the cold start, with one trending
\* query and no per-seed fetch; when the query raises or its response has
\* no page/media list, the result is the fixed "Trending Now" bucket.
NoMediaList(resp) == resp.kind # "page" \/ resp.media.kind # "value"
C7_ColdStartFallback ==
  /\ (Returned /\ NoRatings) =>
       /\ fetch_log = <<>>
       /\ seed_maps = <<>>
       /\ Len(trending_log) = 1
       /\ NoMediaList(trending_log[1]) =>
            result = <<[key |-> "Trending Now",
                        ids |-> <<5114, 16498, 11061, 1535, 9253,
                                  30276, 38000, 40748, 28851, 32281>>]>>
  /\ ~NoRatings => trending_log = <<>>

\* No history was given, the trending response had a Page without a media
\* list, and the fallback came back.
C7_Witness ==
  /\ Returned
  /\ user_ratings.kind = "null"
  /\ trending_log[1].kind = "page"
  /\ trending_log[1].media.kind = "absent"
  /\ Len(result) = 1
  /\ result[1].key = "Trending Now"

\* C8: behind the top picks the genre buckets are in descending order of
\* length, buckets of equal length in the order in which the scan of the
\* merged map first met their genres.
PosIn(seq, g) == CHOOSE k \in 1..Len(seq) : seq[k] = g /\ \A m \in 1..(k - 1) : seq[m] # g
FirstMet(g) ==
  LET holders == {i \in 1..Len(all_recommendations) :
                    g \in Range(all_recommendations[i].genres.val)}
      first == CHOOSE i \in holders : \A k \in holders : i <= k
  IN <<first, PosIn(all_recommendations[first].genres.val, g)>>
MetBefore(g, h) ==
  \/ FirstMet(g)[1] < FirstMet(h)[1]
  \/ FirstMet(g)[1] = FirstMet(h)[1] /\ FirstMet(g)[2] < FirstMet(h)[2]
C8_GenresByLength ==
  (Returned /\ ~NoRatings) =>
    \A i, j \in 2..Len(result) :
      i < j =>
        \/ Len(result[i].ids) > Len(result[j].ids)
        \/ /\ Len(result[i].ids) = Len(result[j].ids)
           /\ MetBefore(result[i].key, result[j].key)

\* The longest bucket was met second and comes first; the two behind it
\* have equal lengths.
C8_Witness ==
  /\ Returned /\ ~NoRatings
  /\ Len(result) >= 4
  /\ Len(result[2].ids) > Len(result[3].ids)
  /\ MetBefore(result[3].key, result[2].key)
  /\ Len(result[3].ids) = Len(result[4].ids)

\* C9: a merged candidate with an empty genre list is in the "Other" bucket
\* of the result when fewer than max_per_genre untagged candidates rank
\* before it by score.
Untagged(e) == e.genres.kind = "value" /\ e.genres.val = <<>>
UntaggedBefore(i) ==
  {k \in 1..Len(all_recommendations) :
     /\ Untagged(all_recommendations[k])
     /\ \/ all_recommendations[k].score > all_recommendations[i].score
        \/ all_recommendations[k].score = all_recommendations[i].score /\ k < i}
C9_UntaggedInOther ==
  (Returned /\ ~NoRatings) =>
    \A i \in 1..Len(all_recommendations) :
      (Untagged(all_recommendations[i]) /\ Cardinality(UntaggedBefore(i)) < max_per_genre)
        => \E b \in 2..Len(result) :
             result[b].key = "Other" /\ all_recommendations[i].id \in Range(result[b].ids)

\* C10: the orders of the seed maps compared with the order of the run: all
\* exchanges of two seeds and all rotations (for up to 3 seeds these are all
\* the permutations).
Exchange(n, a, b) == [i \in 1..n |-> IF i = a THEN b ELSE IF i = b THEN a ELSE i]
Rotation(n, k) == [i \in 1..n |-> ((i + k - 1) % n) + 1]
SeedOrders(n) ==
  {Exchange(n, a, b) : a, b \in 1..n} \cup {Rotation(n, k) : k \in 1..n}
RECURSIVE MergeAll(_, _, _)
MergeAll(all_recs, seen, maps) ==
  IF maps = <<>> THEN all_recs
  ELSE MergeAll(MergeSimilar(all_recs, seen, Head(maps)), seen, Tail(maps))
MergedIn(order) ==
  MergeAll(<<>>, seen_ids, [i \in 1..Len(seed_maps) |-> seed_maps[order[i]]])
IdScores(map) == {<<map[j].id, map[j].score>> : j \in 1..Len(map)}

\* C10, as stated: merging the seed maps in any other order gives the same
\* merged map (the same entries) and the same returned mapping (the same
\* keys in the same order with the same id lists). Stated for the inputs
\* most favourable to it: max_per_genre at its default, no null genre list,
\* and every id with one genre list in all the seed maps that hold it.
GenresAgree ==
  \A i, k \in 1..Len(seed_maps) : \A id \in MapIds(seed_maps[i]) \cap MapIds(seed_maps[k]) :
    EntryOf(seed_maps[i], id).genres = EntryOf(seed_maps[k], id).genres
NoNullGenres ==
  \A i \in 1..Len(seed_maps) : \A j \in 1..Len(seed_maps[i]) :
    seed_maps[i][j].genres.kind # "null"
C10_Original ==
  (Returned /\ ~NoRatings /\ max_per_genre = 15 /\ GenresAgree /\ NoNullGenres) =>
    \A order \in SeedOrders(Len(seed_maps)) :
      /\ Range(MergedIn(order)) = Range(all_recommendations)
      /\ Personalized(MergedIn(order), max_per_genre) = result

\* C10, amended: merging the seed maps in any other order gives a merged
\* map with the same ids and the same score for each id.
C10_ScoresOrderIndependent ==
  (PersonalizedCall /\ pc # "fetch") =>
    \A order \in SeedOrders(Len(seed_maps)) :
      IdScores(MergedIn(order)) = IdScores(all_recommendations)

\* Two seeds both returned an id, and another order of the seeds gives the
\* same scores and another returned mapping.
C10_Witness ==
  /\ Returned /\ ~NoRatings /\ GenresAgree /\ NoNullGenres
  /\ \E i, k \in 1..Len(seed_maps) :
       i < k /\ MapIds(seed_maps[i]) \cap MapIds(seed_maps[k]) \cap ReturnedIds # {}
  /\ \E order \in SeedOrders(Len(seed_maps)) :
       /\ IdScores(MergedIn(order)) = IdScores(all_recommendations)
       /\ ~RaisesAtLine41(MergedIn(order))
       /\ Personalized(MergedIn(order), max_per_genre) # result

====
